---- MODULE Spec2Model ----
(***************************************************************************)
(* Model of apps/core/services/ademe_csv_parser.py: the ADEMECSVParser     *)
(* class (download_csv, parse_csv, _extract_factor_from_row,               *)
(* _matches_sector, get_factors_for_sector).                               *)
(*                                                                         *)
(* Text is a sequence of one-character strings, so that str.strip,         *)
(* str.lower, str.replace and the `in` substring test are computed.        *)
(* An Optional value is a sequence of length 0 (None) or 1.                *)
(***************************************************************************)
EXTENDS Integers, Sequences, FiniteSets, TLC

VARIABLES
    config,          \* self.csv_url, self.timeout, self.max_size
    SECTOR_MAPPING,  \* the class attribute ADEMECSVParser.SECTOR_MAPPING
    csv_content,     \* the rows csv.DictReader yields for the published text
    op,              \* the public method the caller is in ("none" when idle)
    pc,              \* position inside the running method
    sectors_arg,     \* parse_csv: the sectors argument as passed
    sectors,         \* parse_csv: the list of requested sector ids
    idx,             \* parse_csv: number of rows already consumed
    result,          \* parse_csv: the dict under construction
    origin,          \* for each list of result, the row index of each entry
    returned,        \* the first dict parse_csv returned, kept by its caller
    requests,        \* download_csv: requests.get calls of the running call
    response,        \* download_csv: the response received, if any
    buffered,        \* download_csv: body bytes read by response.content
    outcome,         \* what the last finished public call gave its caller
    row,             \* argument of the last _extract_factor_from_row call
    factor_data,     \* value returned by that call (Optional)
    matched,         \* the last _matches_sector call made on factor_data
    sector           \* argument of get_factors_for_sector

vars == <<config, SECTOR_MAPPING, csv_content, op, pc, sectors_arg, sectors,
          idx, result,
          origin, returned, requests, response, buffered, outcome, row,
          factor_data, matched, sector>>

-----------------------------------------------------------------------------
(* Bounds of the model *)

MaxRows == 2

-----------------------------------------------------------------------------
(* Python str operations on text *)

Whitespace == {" ", "\t"}

UpperChars ==
    <<"A", "B", "C", "D", "E", "F", "G", "H", "I", "J", "K", "L", "M", "N",
      "O", "P", "Q", "R", "S", "T", "U", "V", "W", "X", "Y", "Z", "É">>

LowerChars ==
    <<"a", "b", "c", "d", "e", "f", "g", "h", "i", "j", "k", "l", "m", "n",
      "o", "p", "q", "r", "s", "t", "u", "v", "w", "x", "y", "z", "é">>

LowerChar(c) ==
    IF \E k \in DOMAIN UpperChars : UpperChars[k] = c
    THEN LowerChars[CHOOSE k \in DOMAIN UpperChars : UpperChars[k] = c]
    ELSE c

\* str.lower()
Lower(s) == [k \in DOMAIN s |-> LowerChar(s[k])]

\* str.strip()
Strip(s) ==
    LET keep == {k \in DOMAIN s : s[k] \notin Whitespace}
    IN  IF keep = {} THEN <<>>
        ELSE SubSeq(s, CHOOSE k \in keep : \A j \in keep : k <= j,
                       CHOOSE k \in keep : \A j \in keep : k >= j)

\* sub in s
Contains(s, sub) ==
    \E k \in 0..(Len(s) - Len(sub)) : SubSeq(s, k + 1, k + Len(sub)) = sub

\* s.replace(old, new) for single characters
Replace(s, old, new) == [k \in DOMAIN s |-> IF s[k] = old THEN new ELSE s[k]]

\* s.replace(ch, "")
Remove(s, ch) == SelectSeq(s, LAMBDA c : c # ch)

-----------------------------------------------------------------------------
(* decimal.Decimal(str): the constructor's grammar and the comparisons *)

Digits == <<"0", "1", "2", "3", "4", "5", "6", "7", "8", "9">>

IsDigit(c) == \E k \in DOMAIN Digits : Digits[k] = c

DigitVal(c) == (CHOOSE k \in DOMAIN Digits : Digits[k] = c) - 1

AllDigits(s) == \A k \in DOMAIN s : IsDigit(s[k])

RECURSIVE DigitsToInt(_)
DigitsToInt(s) ==
    IF s = <<>> THEN 0
    ELSE 10 * DigitsToInt(SubSeq(s, 1, Len(s) - 1)) + DigitVal(s[Len(s)])

RECURSIVE Pow10(_)
Pow10(n) == IF n <= 0 THEN 1 ELSE 10 * Pow10(n - 1)

\* index of the first occurrence of c in s, 0 when absent
FirstIndex(s, c) ==
    IF \E k \in DOMAIN s : s[k] = c
    THEN CHOOSE k \in DOMAIN s : s[k] = c /\ \A j \in 1..(k - 1) : s[j] # c
    ELSE 0

DecInvalid == [kind |-> "invalid", sign |-> 0, coef |-> 0, exp |-> 0]
DecNaN == [kind |-> "nan", sign |-> 0, coef |-> 0, exp |-> 0]
DecInf(sign) == [kind |-> "inf", sign |-> sign, coef |-> 0, exp |-> 0]
DecFinite(sign, coef, exp) ==
    [kind |-> "finite", sign |-> sign, coef |-> coef, exp |-> exp]

\* the exponent part "[-+]?\d+" of the grammar; <<>> when it does not match
ParseExponent(e) ==
    LET signed == e # <<>> /\ e[1] \in {"+", "-"}
        digs   == IF signed THEN Tail(e) ELSE e
    IN  IF digs = <<>> \/ ~AllDigits(digs) THEN <<>>
        ELSE IF signed /\ e[1] = "-" THEN <<0 - DigitsToInt(digs)>>
        ELSE <<DigitsToInt(digs)>>

\* the numeric alternative: \d* (\. \d*)? (E [-+]?\d+)? with at least one
\* digit in the mantissa
ParseNumber(sign, body) ==
    LET ePos  == FirstIndex(body, "e")
        mant  == IF ePos = 0 THEN body ELSE SubSeq(body, 1, ePos - 1)
        expo  == IF ePos = 0 THEN <<0>>
                 ELSE ParseExponent(SubSeq(body, ePos + 1, Len(body)))
        dot   == FirstIndex(mant, ".")
        int   == IF dot = 0 THEN mant ELSE SubSeq(mant, 1, dot - 1)
        frac  == IF dot = 0 THEN <<>> ELSE SubSeq(mant, dot + 1, Len(mant))
    IN  IF expo = <<>> \/ ~AllDigits(int) \/ ~AllDigits(frac)
           \/ (int = <<>> /\ frac = <<>>)
        THEN DecInvalid
        ELSE DecFinite(sign, DigitsToInt(int \o frac), expo[1] - Len(frac))

\* Decimal(s): a record for the number, the infinities and NaN, DecInvalid
\* where the constructor raises InvalidOperation
Decimal(s) ==
    LET u      == Remove(Strip(s), "_")
        signed == u # <<>> /\ u[1] \in {"+", "-"}
        sign   == IF signed /\ u[1] = "-" THEN 1 ELSE 0
        body   == Lower(IF signed THEN Tail(u) ELSE u)
        nanTail == IF Len(body) >= 3 /\ SubSeq(body, 1, 3) = <<"n", "a", "n">>
                   THEN <<SubSeq(body, 4, Len(body))>>
                   ELSE IF Len(body) >= 4
                           /\ SubSeq(body, 1, 4) = <<"s", "n", "a", "n">>
                   THEN <<SubSeq(body, 5, Len(body))>>
                   ELSE <<>>
    IN  IF body \in {<<"i", "n", "f">>,
                     <<"i", "n", "f", "i", "n", "i", "t", "y">>}
        THEN DecInf(sign)
        ELSE IF nanTail # <<>> /\ AllDigits(nanTail[1]) THEN DecNaN
        ELSE ParseNumber(sign, body)

\* value <= 0 for a Decimal that is not NaN
DecLeqZero(d) ==
    IF d.kind = "inf" THEN d.sign = 1 ELSE d.coef = 0 \/ d.sign = 1

\* value > n (n a natural number) for a Decimal that is not NaN
DecGreater(d, n) ==
    IF d.kind = "inf" THEN d.sign = 0
    ELSE /\ d.sign = 0
         /\ IF d.exp >= 0 THEN d.coef * Pow10(d.exp) > n
            ELSE d.coef > n * Pow10(0 - d.exp)

-----------------------------------------------------------------------------
(* ADEMECSVParser.SECTOR_MAPPING *)

vehicles_keywords ==
    << <<"e", "s", "s", "e", "n", "c", "e">>,
       <<"s", "p", "9", "5">>,
       <<"s", "p", "9", "8">>,
       <<"g", "a", "z", "o", "l", "e">>,
       <<"d", "i", "e", "s", "e", "l">>,
       <<"v", "o", "i", "t", "u", "r", "e">>,
       <<"v", "é", "h", "i", "c", "u", "l", "e">> >>
vehicles_categories ==
    << <<"T", "r", "a", "n", "s", "p", "o", "r", "t", " ", "r", "o", "u", "t", "i", "e", "r">>,
       <<"T", "r", "a", "n", "s", "p", "o", "r", "t", "s">> >>
buildings_keywords ==
    << <<"é", "l", "e", "c", "t", "r", "i", "c", "i", "t", "é">>,
       <<"g", "a", "z", " ", "n", "a", "t", "u", "r", "e", "l">>,
       <<"c", "h", "a", "u", "f", "f", "a", "g", "e">>,
       <<"f", "i", "o", "u", "l">>,
       <<"c", "l", "i", "m", "a", "t", "i", "s", "a", "t", "i", "o", "n">> >>
buildings_categories ==
    << <<"E", "n", "e", "r", "g", "i", "e">>,
       <<"C", "h", "a", "u", "f", "f", "a", "g", "e", " ", "u", "r", "b", "a", "i", "n">> >>
food_keywords ==
    << <<"v", "i", "a", "n", "d", "e">>,
       <<"p", "o", "i", "s", "s", "o", "n">>,
       <<"l", "é", "g", "u", "m", "e", "s">>,
       <<"f", "r", "u", "i", "t", "s">>,
       <<"p", "a", "i", "n">>,
       <<"l", "a", "i", "t">>,
       <<"f", "r", "o", "m", "a", "g", "e">> >>
food_categories ==
    << <<"A", "l", "i", "m", "e", "n", "t", "a", "t", "i", "o", "n">> >>
purchases_keywords ==
    << <<"p", "a", "p", "i", "e", "r">>,
       <<"c", "a", "r", "t", "o", "n">>,
       <<"m", "o", "b", "i", "l", "i", "e", "r">>,
       <<"o", "r", "d", "i", "n", "a", "t", "e", "u", "r">>,
       <<"t", "e", "x", "t", "i", "l", "e">>,
       <<"f", "o", "u", "r", "n", "i", "t", "u", "r", "e">> >>
purchases_categories ==
    << <<"P", "r", "o", "d", "u", "i", "t", "s">>,
       <<"S", "e", "r", "v", "i", "c", "e", "s">> >>

BuiltinSectors ==
    [s \in {"vehicles", "buildings", "food", "purchases"} |->
        CASE s = "vehicles" ->
                [keywords |-> vehicles_keywords,
                 categories |-> vehicles_categories]
          [] s = "buildings" ->
                [keywords |-> buildings_keywords,
                 categories |-> buildings_categories]
          [] s = "food" ->
                [keywords |-> food_keywords, categories |-> food_categories]
          [] s = "purchases" ->
                [keywords |-> purchases_keywords,
                 categories |-> purchases_categories]]

\* list(self.SECTOR_MAPPING.keys()): the ids in the dict's insertion order
SectorKeys == <<"vehicles", "buildings", "food", "purchases">>

-----------------------------------------------------------------------------
(* Rows of csv.DictReader and _extract_factor_from_row *)

COL_NAME == "Nom base français"
COL_UNIT == "Unité français"
COL_VALUE == "Total poste non décomposé"
COL_STATUS == "Statut de l'élément"
COL_LOCATION == "Localisation géographique"
COL_CATEGORY == "Catégorie de l'élément"

Columns ==
    {COL_NAME, COL_UNIT, COL_VALUE, COL_STATUS, COL_LOCATION, COL_CATEGORY}

\* A cell of a row: a str, or the None that DictReader stores (restval) for
\* a column a short line has no field for.
Str(s) == [isNone |-> FALSE, s |-> s]
PyNone == [isNone |-> TRUE, s |-> <<>>]

\* row.get(col, '')
Get(r, col) == IF col \in DOMAIN r THEN r[col] ELSE Str(<<>>)

tx_archive == <<"a", "r", "c", "h", "i", "v", "é">>
tx_france == <<"f", "r", "a", "n", "c", "e">>
tx_fr == <<"f", "r">>

\* line 151: status and 'archivé' in status.lower()
StatusRejected(status) ==
    status # <<>> /\ Contains(Lower(status), tx_archive)

\* lines 154-157 comparing the location without lower()
LocationRejected_cased(location) ==
    /\ location # <<>>
    /\ ~Contains(location, tx_france)
    /\ location # tx_fr
    /\ Strip(location) # <<>>

\* lines 154-157, on the stripped location
LocationRejected(location) ==
    /\ location # <<>>
    /\ ~Contains(Lower(location), tx_france)
    /\ Lower(location) # tx_fr
    /\ Strip(location) # <<>>

\* line 161 without the replace: the decimal comma reaches Decimal()
NormalizeDecimalComma_kept(value_str) == value_str

\* line 161: value_str.replace(',', '.')
NormalizeDecimalComma(value_str) == Replace(value_str, ",", ".")

\* line 162 with value < 0: a zero value passes
ValueOutOfRange_zero(value) ==
    (value.sign = 1 /\ (value.kind = "inf" \/ value.coef # 0))
    \/ DecGreater(value, 10000)

\* line 162: value <= 0 or value > 10000
ValueOutOfRange(value) == DecLeqZero(value) \/ DecGreater(value, 10000)

\* _extract_factor_from_row(row): <<>> for None, else <<the dict>>.
\* A None cell makes .strip() raise AttributeError, and NaN makes the
\* comparison of line 162 raise InvalidOperation; both end in return None.
_extract_factor_from_row(r) ==
    IF \E c \in Columns : Get(r, c).isNone THEN <<>>
    ELSE
      LET name      == Strip(Get(r, COL_NAME).s)
          unit      == Strip(Get(r, COL_UNIT).s)
          value_str == Strip(Get(r, COL_VALUE).s)
          status    == Strip(Get(r, COL_STATUS).s)
          location  == Strip(Get(r, COL_LOCATION).s)
          category  == Strip(Get(r, COL_CATEGORY).s)
          value     == Decimal(NormalizeDecimalComma(value_str))
      IN  IF name = <<>> \/ value_str = <<>> THEN <<>>
          ELSE IF StatusRejected(status) THEN <<>>
          ELSE IF LocationRejected(location) THEN <<>>
          ELSE IF value.kind = "invalid" THEN <<>>
          ELSE IF value.kind = "nan" THEN <<>>
          ELSE IF ValueOutOfRange(value) THEN <<>>
          ELSE << [name |-> name, unit |-> unit, value |-> value,
                   category |-> category, status |-> status,
                   location |-> location] >>

-----------------------------------------------------------------------------
(* _matches_sector *)

\* the loop of lines 199-201 (keywords) and 204-206 (categories): some
\* fragment of the list, lower-cased, is a substring of text
RECURSIVE AnyFragmentIn(_, _, _)
AnyFragmentIn(fragments, k, text) ==
    IF k > Len(fragments) THEN FALSE
    ELSE IF Contains(text, Lower(fragments[k])) THEN TRUE
    ELSE AnyFragmentIn(fragments, k + 1, text)

\* lines 195-208 with the name left in its own case
MatchesMapping_cased(fd, mapping) ==
    IF AnyFragmentIn(mapping.keywords, 1, fd.name) THEN TRUE
    ELSE IF AnyFragmentIn(mapping.categories, 1, Lower(fd.category)) THEN TRUE
    ELSE FALSE

\* lines 195-208, for the mapping found in the registry
MatchesMapping(fd, mapping) ==
    LET name_lower     == Lower(fd.name)
        category_lower == Lower(fd.category)
    IN  IF AnyFragmentIn(mapping.keywords, 1, name_lower) THEN TRUE
        ELSE IF AnyFragmentIn(mapping.categories, 1, category_lower) THEN TRUE
        ELSE FALSE

\* _matches_sector(factor_data, sector)
_matches_sector(fd, sid) ==
    IF sid \notin DOMAIN SECTOR_MAPPING THEN FALSE
    ELSE MatchesMapping(fd, SECTOR_MAPPING[sid])

-----------------------------------------------------------------------------
(* Cell texts the rows of the model are built from *)

tx_empty == <<>>
tx_blank == <<" ">>
tx_gazole_routier == <<"G", "a", "z", "o", "l", "e", " ", "r", "o", "u", "t", "i", "e", "r">>
tx_pain_padded == <<" ", "P", "a", "i", "n", " ">>
tx_moteur_diesel == <<"M", "o", "t", "e", "u", "r", " ", "D", "I", "E", "S", "E", "L">>
tx_chauffage_fioul == <<"C", "h", "a", "u", "f", "f", "a", "g", "e", " ", "a", "u", " ", "f", "i", "o", "u", "l">>
tx_ciment == <<"C", "i", "m", "e", "n", "t">>
tx_unit_litre == <<" ", "k", "g", "C", "O", "2", "e", "/", "l", "i", "t", "r", "e", " ">>
tx_unit_kg == <<"k", "g", "C", "O", "2", "e", "/", "k", "g">>
tx_v_2c76 == <<"2", ",", "7", "6">>
tx_v_0c06_padded == <<" ", "0", ",", "0", "6", " ">>
tx_v_0 == <<"0">>
tx_v_neg == <<"-", "1", ",", "5">>
tx_v_10000 == <<"1", "0", "0", "0", "0">>
tx_v_10000c01 == <<"1", "0", "0", "0", "0", ",", "0", "1">>
tx_v_abc == <<"a", "b", "c">>
tx_v_nan == <<"N", "a", "N">>
tx_v_inf == <<"I", "n", "f", "i", "n", "i", "t", "y">>
tx_v_1e3 == <<"1", "e", "3">>
tx_v_2e4 == <<"2", "E", "4">>
tx_v_1_0 == <<"1", "_", "0">>
tx_v_two_commas == <<"1", ",", "2", ",", "3">>
tx_v_dot5 == <<".", "5">>
tx_st_archive == <<"A", "r", "c", "h", "i", "v", "é">>
tx_st_archive_upper == <<"A", "R", "C", "H", "I", "V", "É", " ", "2", "0", "2", "0">>
tx_st_valide == <<"V", "a", "l", "i", "d", "e", " ", "g", "é", "n", "é", "r", "i", "q", "u", "e">>
tx_loc_FR == <<"F", "R">>
tx_loc_fr_padded == <<" ", "f", "r", "\t">>
tx_loc_France == <<"F", "r", "a", "n", "c", "e">>
tx_loc_France_metro == <<"F", "r", "a", "n", "c", "e", " ", "m", "é", "t", "r", "o", "p", "o", "l", "i", "t", "a", "i", "n", "e">>
tx_loc_FR_MET == <<"F", "R", "-", "M", "E", "T">>
tx_loc_FRA == <<"F", "R", "A">>
tx_loc_Europe == <<"E", "u", "r", "o", "p", "e">>
tx_cat_transport == <<"T", "r", "a", "n", "s", "p", "o", "r", "t", " ", "r", "o", "u", "t", "i", "e", "r">>
tx_cat_alimentation == <<"A", "l", "i", "m", "e", "n", "t", "a", "t", "i", "o", "n", " ", ">", " ", "B", "o", "u", "l", "a", "n", "g", "e", "r", "i", "e">>
tx_cat_energie == <<"E", "N", "E", "R", "G", "I", "E">>

\* one choice per column: <<>> when the header has no such column, else
\* <<cell>>
NameCells ==
    {<<>>, <<Str(tx_blank)>>, <<Str(tx_gazole_routier)>>,
     <<Str(tx_pain_padded)>>, <<Str(tx_moteur_diesel)>>, <<Str(tx_ciment)>>}

UnitCells == {<<>>, <<PyNone>>, <<Str(tx_unit_litre)>>}

ValueCells ==
    {<<PyNone>>, <<Str(tx_empty)>>, <<Str(tx_v_2c76)>>,
     <<Str(tx_v_0c06_padded)>>, <<Str(tx_v_0)>>, <<Str(tx_v_neg)>>,
     <<Str(tx_v_10000)>>, <<Str(tx_v_10000c01)>>, <<Str(tx_v_abc)>>,
     <<Str(tx_v_nan)>>, <<Str(tx_v_inf)>>, <<Str(tx_v_1e3)>>,
     <<Str(tx_v_2e4)>>, <<Str(tx_v_1_0)>>, <<Str(tx_v_two_commas)>>,
     <<Str(tx_v_dot5)>>}

StatusCells ==
    {<<Str(tx_empty)>>, <<Str(tx_st_archive)>>, <<Str(tx_st_archive_upper)>>,
     <<Str(tx_st_valide)>>}

LocationCells ==
    {<<Str(tx_empty)>>, <<Str(tx_blank)>>, <<Str(tx_loc_FR)>>,
     <<Str(tx_loc_fr_padded)>>, <<Str(tx_loc_France)>>,
     <<Str(tx_loc_France_metro)>>, <<Str(tx_loc_FR_MET)>>,
     <<Str(tx_loc_FRA)>>, <<Str(tx_loc_Europe)>>}

CategoryCells ==
    {<<>>, <<PyNone>>, <<Str(tx_cat_transport)>>,
     <<Str(tx_cat_alimentation)>>, <<Str(tx_cat_energie)>>}

\* the dict DictReader builds from the chosen cells
MakeRow(n, u, v, st, l, c) ==
    LET cell == [k \in Columns |->
                    CASE k = COL_NAME -> n
                      [] k = COL_UNIT -> u
                      [] k = COL_VALUE -> v
                      [] k = COL_STATUS -> st
                      [] k = COL_LOCATION -> l
                      [] k = COL_CATEGORY -> c]
    IN  [k \in {k \in Columns : cell[k] # <<>>} |-> cell[k][1]]

AllRows ==
    {MakeRow(n, u, v, st, l, c) :
        n \in NameCells, u \in UnitCells, v \in ValueCells,
        st \in StatusCells, l \in LocationCells, c \in CategoryCells}

\* the rows a published text of the model is made of
RowGazole ==
    MakeRow(<<Str(tx_gazole_routier)>>, <<Str(tx_unit_litre)>>,
            <<Str(tx_v_2c76)>>, <<Str(tx_empty)>>, <<Str(tx_loc_FR)>>,
            <<Str(tx_cat_transport)>>)
RowPain ==
    MakeRow(<<Str(tx_pain_padded)>>, <<Str(tx_unit_kg)>>,
            <<Str(tx_v_0c06_padded)>>, <<Str(tx_st_valide)>>,
            <<Str(tx_loc_France_metro)>>, <<Str(tx_cat_alimentation)>>)
RowFioulAlimentation ==
    MakeRow(<<Str(tx_chauffage_fioul)>>, <<Str(tx_unit_kg)>>,
            <<Str(tx_v_10000)>>, <<Str(tx_empty)>>, <<Str(tx_empty)>>,
            <<Str(tx_cat_alimentation)>>)
RowNotNumeric ==
    MakeRow(<<Str(tx_pain_padded)>>, <<Str(tx_unit_kg)>>, <<Str(tx_v_abc)>>,
            <<Str(tx_empty)>>, <<Str(tx_loc_FR)>>,
            <<Str(tx_cat_alimentation)>>)
RowZero ==
    MakeRow(<<Str(tx_pain_padded)>>, <<Str(tx_unit_kg)>>, <<Str(tx_v_0)>>,
            <<Str(tx_empty)>>, <<Str(tx_loc_FR)>>,
            <<Str(tx_cat_alimentation)>>)
RowShort ==
    MakeRow(<<Str(tx_moteur_diesel)>>, <<Str(tx_unit_litre)>>,
            <<Str(tx_v_2c76)>>, <<PyNone>>, <<PyNone>>, <<PyNone>>)
RowPool ==
    {RowGazole, RowPain, RowFioulAlimentation, RowNotNumeric, RowZero,
     RowShort}

\* the texts: every sequence of at most MaxRows rows of the pool
Contents == UNION {[1..n -> RowPool] : n \in 0..MaxRows}

\* the sectors argument of parse_csv: <<>> for None, else <<the list>>
SectorArgs ==
    {<<>>, << <<"food">> >>, << <<"vehicles", "food">> >>,
     << <<"food", "food">> >>, << <<"unknown", "buildings">> >>}

\* the sector argument of get_factors_for_sector and _matches_sector
SectorIds == {"vehicles", "buildings", "food", "purchases", "unknown"}

-----------------------------------------------------------------------------
(* HTTP responses requests.get can receive *)

MAX_SIZE == 50 * 1024 * 1024

BodySizes == {1, MAX_SIZE, MAX_SIZE + 1}

\* status "error": requests.get or raise_for_status raises RequestException;
\* content_length: <<>> when the header is absent
Responses ==
    {[status |-> "error", content_length |-> <<>>, body_size |-> 0]}
    \cup
    [status : {"ok"},
     content_length : {<<>>} \cup {<<n>> : n \in BodySizes},
     body_size : BodySizes]

-----------------------------------------------------------------------------
(* State after ADEMECSVParser(csv_url) *)

EmptyDict == [s \in {} |-> <<>>]

\* outcome: the method that finished, and the exception it raised or the
\* value it returned
NoOutcome == [of |-> "none", kind |-> "none", error |-> "", value |-> <<>>]
Raised(m, e) == [of |-> m, kind |-> "error", error |-> e, value |-> <<>>]
Returned(m, v) == [of |-> m, kind |-> "value", error |-> "", value |-> v]

InitParser ==
    /\ config = [csv_url |-> "csv_url", timeout |-> 30, max_size |-> MAX_SIZE]
    /\ SECTOR_MAPPING = BuiltinSectors
    /\ op = "none"
    /\ pc = "idle"
    /\ sector = ""
    /\ sectors_arg = <<>>
    /\ sectors = <<>>
    /\ idx = 0
    /\ result = EmptyDict
    /\ origin = EmptyDict
    /\ returned = <<>>
    /\ requests = 0
    /\ response = <<>>
    /\ buffered = 0
    /\ outcome = NoOutcome
    /\ factor_data = <<>>
    /\ matched = <<>>

Init ==
    /\ InitParser
    /\ csv_content \in Contents
    /\ row = <<>>

-----------------------------------------------------------------------------
(* parse_csv *)

ToSet(list) == {list[k] : k \in DOMAIN list}

\* line 105 keeping only the ids the registry knows
InitResult_registered(list) ==
    [s \in ToSet(list) \cap DOMAIN SECTOR_MAPPING |-> <<>>]

\* line 105 starting from the lists of the dict returned before
InitResult_shared(list) ==
    [s \in ToSet(list) |->
        IF returned # <<>> /\ s \in DOMAIN returned[1].result
        THEN returned[1].result[s]
        ELSE <<>>]

\* line 105: result = {sector: [] for sector in sectors}
InitResult(list) == [s \in ToSet(list) |-> <<>>]

\* lines 117-119: for sector in sectors: if matches: result[sector].append
RECURSIVE AppendMatches(_, _, _, _, _)
AppendMatches(res, item, fd, list, k) ==
    IF k > Len(list) THEN res
    ELSE AppendMatches(IF _matches_sector(fd, list[k])
                       THEN [res EXCEPT ![list[k]] = Append(@, item)]
                       ELSE res,
                       item, fd, list, k + 1)

\* lines 113-119 for the factor_data of one row: the dict after the row
ScanStep(res, fd, list) ==
    IF fd = <<>> THEN res ELSE AppendMatches(res, fd[1], fd[1], list, 1)

\* the same for origin: the index k of the row is what is appended
OriginStep(org, fd, k, list) ==
    IF fd = <<>> THEN org ELSE AppendMatches(org, k, fd[1], list, 1)

\* parse_csv as a function of its arguments: lines 100-125 run on the rows
RECURSIVE ScanAll(_, _, _, _)
ScanAll(res, rows, k, list) ==
    IF k > Len(rows) THEN res
    ELSE ScanAll(ScanStep(res, _extract_factor_from_row(rows[k]), list),
                 rows, k + 1, list)

parse_csv(rows, req) ==
    LET list == IF req = <<>> THEN SectorKeys ELSE req[1]
    IN  ScanAll(InitResult(list), rows, 1, list)

\* the loop of line 110 leaving at the first rejected row
NextRowIndex_break(k, fd) == IF fd = <<>> THEN Len(csv_content) ELSE k + 1

\* the for loop of line 110 moves to the next row, accepted or not
NextRowIndex(k, fd) == k + 1

\* lines 100-108, entered with the sectors argument req
ParseCsvBegin(req) ==
    /\ sectors_arg' = req
    /\ sectors' = IF req = <<>> THEN SectorKeys ELSE req[1]
    /\ result' = InitResult(sectors')
    /\ origin' = InitResult(sectors')
    /\ idx' = 0
    /\ pc' = "scan"

\* the caller calls parse_csv(csv_content, sectors)
CallParseCsv ==
    /\ op = "none"
    /\ \E req \in SectorArgs : ParseCsvBegin(req)
    /\ op' = "parse_csv"
    /\ outcome' = NoOutcome
    /\ row' = <<>>
    /\ factor_data' = <<>>
    /\ UNCHANGED <<config, SECTOR_MAPPING, csv_content, sector, returned,
                   requests, response, buffered, matched>>

\* one iteration of the loop of lines 110-119
ScanRow ==
    /\ pc = "scan"
    /\ idx < Len(csv_content)
    /\ LET r  == csv_content[idx + 1]
           fd == _extract_factor_from_row(r)
       IN  /\ row' = <<r>>
           /\ factor_data' = fd
           /\ result' = ScanStep(result, fd, sectors)
           /\ origin' = OriginStep(origin, fd, idx + 1, sectors)
           /\ idx' = NextRowIndex(idx, fd)
    /\ UNCHANGED <<config, SECTOR_MAPPING, csv_content, op, pc, sector,
                   sectors_arg, sectors, returned, requests, response, buffered, outcome,
                   matched>>

\* lines 121-125: the rows are exhausted, return result
ParseCsvReturn ==
    /\ pc = "scan"
    /\ idx >= Len(csv_content)
    /\ IF op = "parse_csv"
       THEN /\ returned' = IF returned # <<>> THEN returned
                            ELSE <<[sectors |-> sectors_arg,
                                    result |-> result]>>
            /\ outcome' = Returned("parse_csv", result)
            /\ op' = "none"
            /\ pc' = "idle"
       ELSE /\ pc' = "parsed"
            /\ UNCHANGED <<returned, outcome, op>>
    /\ UNCHANGED <<config, SECTOR_MAPPING, csv_content, sector, sectors_arg, sectors, idx,
                   result, origin, requests, response, buffered, row,
                   factor_data, matched>>

Next == CallParseCsv \/ ScanRow \/ ParseCsvReturn

Spec == Init /\ [][Next]_vars

\* The loop and the return are sequential code: a parse_csv that has been
\* entered takes its next step, which consumes rows (ScanRow) or leaves the
\* method (ParseCsvReturn).  The steps of Next that change <<pc, idx>> this
\* way are exactly the ScanRow and ParseCsvReturn steps.
ParseProgress ==
    /\ pc = "scan"
    /\ \/ /\ idx < Len(csv_content)
          /\ idx' \in (idx + 1)..Len(csv_content)
          /\ pc' = pc
       \/ /\ idx >= Len(csv_content)
          /\ idx' = idx
          /\ pc' \in {"idle", "parsed"}

FairSpec == Spec /\ WF_<<pc, idx>>(ParseProgress)

-----------------------------------------------------------------------------
(* download_csv and get_factors_for_sector *)

\* line 76: content_length and int(content_length) > self.max_size
DeclaredTooLarge(resp) ==
    resp.content_length # <<>> /\ resp.content_length[1] > config.max_size

\* the exception swallowed: the request is made again
Propagate_retry(e) ==
    /\ pc' = "download"
    /\ UNCHANGED <<outcome, op>>

\* the exception leaves download_csv (RequestException: logged and raised
\* again, lines 85-87; ValueError: not caught) and, get_factors_for_sector
\* having no handler, the public method that was called
Propagate(e) ==
    /\ outcome' = Raised(op, e)
    /\ op' = "none"
    /\ pc' = "idle"

CallDownloadCsv ==
    /\ op = "none"
    /\ op' = "download_csv"
    /\ pc' = "download"
    /\ requests' = 0
    /\ response' = <<>>
    /\ buffered' = 0
    /\ outcome' = NoOutcome
    /\ UNCHANGED <<config, SECTOR_MAPPING, csv_content, sector, sectors_arg, sectors, idx,
                   result, origin, returned, row, factor_data, matched>>

CallGetFactorsForSector ==
    /\ op = "none"
    /\ \E s \in SectorIds : sector' = s
    /\ op' = "get_factors_for_sector"
    /\ pc' = "download"
    /\ requests' = 0
    /\ response' = <<>>
    /\ buffered' = 0
    /\ outcome' = NoOutcome
    /\ sectors_arg' = <<>>
    /\ sectors' = <<>>
    /\ idx' = 0
    /\ result' = EmptyDict
    /\ origin' = EmptyDict
    /\ row' = <<>>
    /\ factor_data' = <<>>
    /\ UNCHANGED <<config, SECTOR_MAPPING, csv_content, returned, matched>>

\* download_csv, lines 64-87: one requests.get, then the size test, then
\* response.content is read and decoded
DownloadCsv ==
    /\ pc = "download"
    /\ \E resp \in Responses :
        /\ requests' = requests + 1
        /\ response' = <<resp>>
        /\ IF resp.status = "error"
           THEN /\ buffered' = 0
                /\ Propagate("RequestException")
           ELSE IF DeclaredTooLarge(resp)
           THEN /\ buffered' = 0
                /\ Propagate("ValueError")
           ELSE /\ buffered' = resp.body_size
                /\ IF op = "download_csv"
                   THEN /\ outcome' = Returned("download_csv", csv_content)
                        /\ op' = "none"
                        /\ pc' = "idle"
                   ELSE /\ pc' = "downloaded"
                        /\ UNCHANGED <<outcome, op>>
    /\ UNCHANGED <<config, SECTOR_MAPPING, csv_content, sector, sectors_arg, sectors, idx,
                   result, origin, returned, row, factor_data, matched>>

\* line 221: result = self.parse_csv(csv_content, sectors=[sector])
GetFactorsParse ==
    /\ pc = "downloaded"
    /\ ParseCsvBegin(<< <<sector>> >>)
    /\ UNCHANGED <<config, SECTOR_MAPPING, csv_content, op, sector, returned,
                   requests, response, buffered, outcome, row, factor_data,
                   matched>>

\* line 222: return result.get(sector, [])
GetFactorsReturn ==
    /\ pc = "parsed"
    /\ outcome' = Returned("get_factors_for_sector",
                            IF sector \in DOMAIN result THEN result[sector]
                            ELSE <<>>)
    /\ op' = "none"
    /\ pc' = "idle"
    /\ UNCHANGED <<config, SECTOR_MAPPING, csv_content, sector, sectors_arg, sectors, idx,
                   result, origin, returned, requests, response, buffered,
                   row, factor_data, matched>>

NextFetch ==
    \/ CallDownloadCsv
    \/ CallGetFactorsForSector
    \/ DownloadCsv
    \/ GetFactorsParse
    \/ ScanRow
    \/ ParseCsvReturn
    \/ GetFactorsReturn

SpecFetch == Init /\ [][NextFetch]_vars

-----------------------------------------------------------------------------
(* _extract_factor_from_row and _matches_sector called on any row *)

InitRow ==
    /\ InitParser
    /\ csv_content = <<>>
    /\ \E r \in AllRows : row = <<r>>

ExtractRow ==
    /\ pc = "idle"
    /\ factor_data' = _extract_factor_from_row(row[1])
    /\ pc' = "extracted"
    /\ UNCHANGED <<config, SECTOR_MAPPING, csv_content, op, sector, sectors_arg, sectors,
                   idx, result, origin, returned, requests, response,
                   buffered, outcome, row, matched>>

MatchSector ==
    /\ pc = "extracted"
    /\ factor_data # <<>>
    /\ \E s \in SectorIds :
          matched' = <<[sector |-> s,
                        value |-> _matches_sector(factor_data[1], s)]>>
    /\ pc' = "matched"
    /\ UNCHANGED <<config, SECTOR_MAPPING, csv_content, op, sector, sectors_arg, sectors,
                   idx, result, origin, returned, requests, response,
                   buffered, outcome, row, factor_data>>

NextRow == ExtractRow \/ MatchSector

SpecRow == InitRow /\ [][NextRow]_vars

-----------------------------------------------------------------------------
(* The conditions the claims state on a raw row, written from the claims *)

IsText(r, col) == ~Get(r, col).isNone

\* the trimmed text of a cell that is a str
Trimmed(r, col) == Strip(Get(r, col).s)

NameGiven(r) == IsText(r, COL_NAME) /\ Trimmed(r, COL_NAME) # <<>>

NotArchived(text) == ~Contains(Lower(text), tx_archive)

InFrance(text) ==
    text = <<>> \/ Lower(text) = tx_fr \/ Contains(Lower(text), tx_france)

\* the numbers the value texts of the model denote, as num/den
Denoted ==
    [t \in {tx_v_2c76, Strip(tx_v_0c06_padded), tx_v_0, tx_v_neg, tx_v_10000,
            tx_v_10000c01, tx_v_1e3, tx_v_2e4, tx_v_1_0, tx_v_dot5} |->
        CASE t = tx_v_2c76 -> [num |-> 276, den |-> 100]
          [] t = Strip(tx_v_0c06_padded) -> [num |-> 6, den |-> 100]
          [] t = tx_v_0 -> [num |-> 0, den |-> 1]
          [] t = tx_v_neg -> [num |-> -15, den |-> 10]
          [] t = tx_v_10000 -> [num |-> 10000, den |-> 1]
          [] t = tx_v_10000c01 -> [num |-> 1000001, den |-> 100]
          [] t = tx_v_1e3 -> [num |-> 1000, den |-> 1]
          [] t = tx_v_2e4 -> [num |-> 20000, den |-> 1]
          [] t = tx_v_1_0 -> [num |-> 10, den |-> 1]
          [] t = tx_v_dot5 -> [num |-> 5, den |-> 10]]

\* the value cell is a number v with 0 < v <= 10000
ValueInRange(r) ==
    /\ IsText(r, COL_VALUE)
    /\ Trimmed(r, COL_VALUE) \in DOMAIN Denoted
    /\ LET q == Denoted[Trimmed(r, COL_VALUE)]
       IN  0 < q.num /\ q.num <= 10000 * q.den

\* the Decimal d is exactly the number q
DecIs(d, q) ==
    /\ d.kind = "finite"
    /\ LET signed == IF d.sign = 1 THEN 0 - d.coef ELSE d.coef
       IN  IF d.exp >= 0 THEN signed * Pow10(d.exp) * q.den = q.num
           ELSE signed * q.den = q.num * Pow10(0 - d.exp)

\* name, status, location and value are as the claim C1 requires
RowValid(r) ==
    /\ NameGiven(r)
    /\ IsText(r, COL_STATUS) /\ NotArchived(Trimmed(r, COL_STATUS))
    /\ IsText(r, COL_LOCATION) /\ InFrance(Trimmed(r, COL_LOCATION))
    /\ ValueInRange(r)

\* fd is one record: the six trimmed fields of r and its exact value
RecordOf(fd, r) ==
    /\ Len(fd) = 1
    /\ fd[1].name = Trimmed(r, COL_NAME)
    /\ fd[1].unit = Trimmed(r, COL_UNIT)
    /\ fd[1].category = Trimmed(r, COL_CATEGORY)
    /\ fd[1].status = Trimmed(r, COL_STATUS)
    /\ fd[1].location = Trimmed(r, COL_LOCATION)
    /\ DecIs(fd[1].value, Denoted[Trimmed(r, COL_VALUE)])

Extracted == pc \in {"extracted", "matched"}

-----------------------------------------------------------------------------
(* C1 *)

\* C1, as stated: every row with a non-empty name, a status without
\* "archivé", a location that is empty, "fr" or contains "france", and a
\* value v with 0 < v <= 10000 yields exactly one record with the six
\* trimmed fields and the exact value v.
C1_AsStated ==
    (Extracted /\ RowValid(row[1])) => RecordOf(factor_data, row[1])

\* C1, amended: the same for every such row whose unit and category cells
\* are text too, i.e. no cell of the row is the None of a short line; a row
\* with a None cell yields no record.
C1_Completeness ==
    Extracted =>
        /\ (RowValid(row[1]) /\ IsText(row[1], COL_UNIT)
                /\ IsText(row[1], COL_CATEGORY))
              => RecordOf(factor_data, row[1])
        /\ (\E c \in Columns : ~IsText(row[1], c)) => factor_data = <<>>

\* a valid row with padded cells and a decimal comma has been extracted
C1_Witness ==
    /\ Extracted
    /\ RowValid(row[1])
    /\ Get(row[1], COL_VALUE).s = tx_v_0c06_padded
    /\ Get(row[1], COL_NAME).s = tx_pain_padded
    /\ Get(row[1], COL_LOCATION).s = tx_loc_France_metro
    /\ factor_data # <<>>
    /\ factor_data[1].name = <<"P", "a", "i", "n">>

-----------------------------------------------------------------------------
(* C10 *)

\* every cell is text, the name is given, the status is not archived and
\* the value is in range: only the location can reject the row
OtherwiseValid(r) ==
    /\ \A c \in Columns : IsText(r, c)
    /\ NameGiven(r)
    /\ NotArchived(Trimmed(r, COL_STATUS))
    /\ ValueInRange(r)

LocationIs(r, text) == IsText(r, COL_LOCATION) /\ Get(r, COL_LOCATION).s = text

\* C10, as stated: an otherwise valid row located "FR-MET" or "France
\* métropolitaine" is accepted, one located "FRA" is rejected.
C10_AsStated ==
    (Extracted /\ OtherwiseValid(row[1])) =>
        /\ LocationIs(row[1], tx_loc_FR_MET) => factor_data # <<>>
        /\ LocationIs(row[1], tx_loc_France_metro) => factor_data # <<>>
        /\ LocationIs(row[1], tx_loc_FRA) => factor_data = <<>>

\* C10, amended: an otherwise valid row located "France métropolitaine" is
\* accepted; one located "FR-MET" or "FRA" is rejected.
C10_LocationBoundary ==
    (Extracted /\ OtherwiseValid(row[1])) =>
        /\ LocationIs(row[1], tx_loc_France_metro) => factor_data # <<>>
        /\ LocationIs(row[1], tx_loc_FR_MET) => factor_data = <<>>
        /\ LocationIs(row[1], tx_loc_FRA) => factor_data = <<>>

\* an otherwise valid row located "FR-MET" has been extracted and rejected
C10_Witness ==
    /\ Extracted
    /\ OtherwiseValid(row[1])
    /\ LocationIs(row[1], tx_loc_FR_MET)
    /\ factor_data = <<>>

-----------------------------------------------------------------------------
(* C8 *)

\* the membership rule as the claim words it
SectorRule(fd, sid) ==
    /\ sid \in DOMAIN BuiltinSectors
    /\ \/ \E k \in DOMAIN BuiltinSectors[sid].keywords :
            Contains(Lower(fd.name), BuiltinSectors[sid].keywords[k])
       \/ \E k \in DOMAIN BuiltinSectors[sid].categories :
            Contains(Lower(fd.category),
                     Lower(BuiltinSectors[sid].categories[k]))

NoFragments == [keywords |-> <<>>, categories |-> <<>>]

\* C8: _matches_sector(record, sector) is true exactly when the lower-cased
\* name contains a keyword of the sector or the lower-cased category
\* contains a lower-cased category fragment of the sector; it is false for
\* an id absent from the registry and for a sector with two empty lists;
\* "Gazole routier" of category "Transport routier" matches vehicles; the
\* call changes nothing but its own result.
C8_MatchesSector ==
    /\ [](pc = "matched" =>
            /\ matched[1].value = SectorRule(factor_data[1],
                                             matched[1].sector)
            /\ matched[1].sector = "unknown" => ~matched[1].value
            /\ ~MatchesMapping(factor_data[1], NoFragments)
            /\ (/\ factor_data[1].name = tx_gazole_routier
                /\ factor_data[1].category = tx_cat_transport
                /\ matched[1].sector = "vehicles") => matched[1].value)
    /\ [][(pc = "extracted" /\ pc' = "matched") =>
            UNCHANGED <<config, SECTOR_MAPPING, csv_content, op, sector,
                        sectors_arg, sectors, idx, result, origin, returned, requests,
                        response, buffered, outcome, row, factor_data>>]_vars

\* an upper-case name matched vehicles by its keyword "diesel"
C8_Witness ==
    /\ pc = "matched"
    /\ factor_data[1].name = tx_moteur_diesel
    /\ factor_data[1].category = <<>>
    /\ matched[1].sector = "vehicles"
    /\ matched[1].value

-----------------------------------------------------------------------------
(* C2 *)

\* 0 < d <= 10000
DecInRange(d) ==
    /\ d.kind = "finite"
    /\ d.sign = 0
    /\ d.coef > 0
    /\ IF d.exp >= 0 THEN d.coef * Pow10(d.exp) <= 10000
       ELSE d.coef <= 10000 * Pow10(0 - d.exp)

RecordSound(rec) ==
    /\ rec.name # <<>>
    /\ DecInRange(rec.value)
    /\ NotArchived(rec.status)
    /\ InFrance(rec.location)

\* the row breaks one of the four conditions
RowViolates(r) ==
    \/ ~NameGiven(r)
    \/ ~ValueInRange(r)
    \/ IsText(r, COL_STATUS) /\ ~NotArchived(Trimmed(r, COL_STATUS))
    \/ IsText(r, COL_LOCATION) /\ ~InFrance(Trimmed(r, COL_LOCATION))

-----------------------------------------------------------------------------
(* C4 *)

\* the requested ids: all registry ids when the argument is None
Requested(req) ==
    IF req = <<>> THEN DOMAIN BuiltinSectors ELSE ToSet(req[1])

\* the rows of the text _extract_factor_from_row accepts, in row order
AcceptedRows(rows) ==
    SelectSeq(rows, LAMBDA r : _extract_factor_from_row(r) # <<>>)

\* some accepted row of the text matches the sector
SomeMatch(rows, sid) ==
    \E k \in DOMAIN rows :
        /\ _extract_factor_from_row(rows[k]) # <<>>
        /\ SectorRule(_extract_factor_from_row(rows[k])[1], sid)

\* C4: from its initialisation to its return the dict of parse_csv has
\* exactly the requested sector ids as keys (all registry ids for None); a
\* requested sector without matching row, or absent from the registry, is
\* returned with an empty list, and parse_csv raises nothing.
C4_KeySet ==
    /\ op = "parse_csv" => DOMAIN result = Requested(sectors_arg)
    /\ outcome.of = "parse_csv" =>
          /\ outcome.kind = "value"
          /\ DOMAIN outcome.value = Requested(sectors_arg)
          /\ \A s \in Requested(sectors_arg) :
                (s \notin DOMAIN BuiltinSectors \/ ~SomeMatch(csv_content, s))
                   => outcome.value[s] = <<>>

\* food requested on a text of vehicle rows only: {"food": []} is returned
C4_Witness ==
    /\ csv_content = <<RowGazole, RowGazole>>
    /\ sectors_arg = << <<"food">> >>
    /\ outcome = Returned("parse_csv", [s \in {"food"} |-> <<>>])

-----------------------------------------------------------------------------
(* C5 *)

\* the records of the accepted rows, in row order
AcceptedRecords(rows) ==
    [k \in DOMAIN AcceptedRows(rows) |->
        _extract_factor_from_row(AcceptedRows(rows)[k])[1]]

\* C5, as stated: the list returned for a requested sector is exactly the
\* sequence of accepted records that match it, in row order; a record that
\* matches several requested sectors is in the list of each.
C5_AsStated ==
    (outcome.of = "parse_csv" /\ outcome.kind = "value") =>
        \A s \in DOMAIN outcome.value :
            outcome.value[s] =
                SelectSeq(AcceptedRecords(csv_content),
                          LAMBDA rec : SectorRule(rec, s))

-----------------------------------------------------------------------------
(* C7 *)

\* C7: parse_csv, once entered, returns to its caller, without raising, the
\* dict parse_csv gives for the same text without its rejected rows (short
\* lines, non-numeric or out-of-range values, archived or foreign rows).
C7_BadRowSkipped ==
    (op = "parse_csv") ~>
        (/\ op = "none"
         /\ outcome = Returned("parse_csv",
                               parse_csv(AcceptedRows(csv_content),
                                         sectors_arg)))

\* a short line came first; the vehicle row after it is in the result
C7_Witness ==
    /\ csv_content = <<RowShort, RowGazole>>
    /\ sectors_arg = <<>>
    /\ outcome.of = "parse_csv"
    /\ outcome.kind = "value"
    /\ Len(outcome.value["vehicles"]) = 1
    /\ outcome.value["vehicles"][1].name = tx_gazole_routier

-----------------------------------------------------------------------------
(* C9 *)

\* C9: a parse_csv run on the same text with the same sectors argument as
\* an earlier run returns a dict equal to the one the earlier run returned;
\* the dict the earlier run returned is never changed by a later run; no
\* step changes the registry or the parser's configuration.
C9_Idempotence ==
    /\ []((/\ returned # <<>>
           /\ outcome.of = "parse_csv"
           /\ outcome.kind = "value"
           /\ sectors_arg = returned[1].sectors)
             => outcome.value = returned[1].result)
    /\ [][returned # <<>> => returned' = returned]_vars
    /\ [][config' = config /\ SECTOR_MAPPING' = SECTOR_MAPPING]_vars

\* a later run with the argument of the first one is about to return, and
\* its food list is not empty
C9_Witness ==
    /\ returned # <<>>
    /\ op = "parse_csv"
    /\ idx = Len(csv_content)
    /\ sectors_arg = returned[1].sectors
    /\ "food" \in DOMAIN result
    /\ result["food"] # <<>>
    /\ result = returned[1].result

-----------------------------------------------------------------------------
(* C3 *)

\* the response of the running or last download_csv declares, or has, a
\* body larger than max_size
Oversized(resp) ==
    \/ resp.content_length # <<>> /\ resp.content_length[1] > config.max_size
    \/ resp.body_size > config.max_size

\* C3, as stated: whenever the declared or the actual size of the body
\* exceeds max_size, download_csv fails with the payload-too-large error
\* before the full body is buffered, so no text decoded from a body larger
\* than max_size is returned, also when Content-Length is absent or
\* understates the body.
C3_AsStated ==
    (response # <<>> /\ response[1].status = "ok" /\ Oversized(response[1]))
        => /\ outcome.kind = "error"
           /\ outcome.error = "ValueError"
           /\ buffered < response[1].body_size
           /\ buffered <= config.max_size

-----------------------------------------------------------------------------
(* C6 *)

\* the response makes download_csv fail: a network or HTTP error, or a
\* declared size above max_size
FailedResponse(resp) ==
    \/ resp.status = "error"
    \/ resp.content_length # <<>> /\ resp.content_length[1] > config.max_size

ErrorOf(resp) ==
    IF resp.status = "error" THEN "RequestException" ELSE "ValueError"

InGetFactors ==
    op = "get_factors_for_sector" \/ outcome.of = "get_factors_for_sector"

\* C6: when download_csv fails inside get_factors_for_sector, the caller
\* gets that same error; one request was made and none is made again,
\* parse_csv is not started and no list is returned.
C6_RetrievalFailureTerminal ==
    /\ [](requests <= 1)
    /\ []((InGetFactors /\ response # <<>> /\ FailedResponse(response[1]))
            => /\ op = "none"
               /\ pc = "idle"
               /\ outcome = Raised("get_factors_for_sector",
                                   ErrorOf(response[1]))
               /\ requests = 1
               /\ sectors_arg = <<>>
               /\ sectors = <<>>
               /\ idx = 0
               /\ result = EmptyDict)
    /\ [][(outcome'.of = "get_factors_for_sector" /\ outcome'.kind = "error")
            => UNCHANGED <<sectors_arg, sectors, idx, result, origin,
                           returned, row, factor_data>>]_vars

\* get_factors_for_sector has ended on the ValueError of an oversized
\* Content-Length, after one request
C6_Witness ==
    /\ outcome = Raised("get_factors_for_sector", "ValueError")
    /\ requests = 1
    /\ response[1].content_length = <<MAX_SIZE + 1>>
    /\ op = "none"
    /\ csv_content # <<>>

-----------------------------------------------------------------------------
(* C11 *)

\* no row index occurs twice in the sequence
NoRepeat(seq) ==
    \A i, j \in DOMAIN seq : seq[i] = seq[j] => i = j

\* C11, as stated: whatever list of sector ids is passed to parse_csv, a
\* list naming the same id more than once included, each accepted row
\* contributes at most one entry to the list of a sector, so no list is
\* ever longer than the number of accepted rows of the text.
C11_AsStated ==
    op = "parse_csv" =>
        \A s \in DOMAIN result :
            /\ NoRepeat(origin[s])
            /\ Len(result[s]) <= Len(AcceptedRows(csv_content))

====
